---- MODULE Spec2Model ----
(***************************************************************************)
(* The queue consumer of the dining-suggestions pipeline                   *)
(* (src/lambda_functions/LF2.py): lambda_handler receives a batch from     *)
(* SQS, runs process_one_message on each message (parse -> OpenSearch ->   *)
(* DynamoDB -> format_email -> SES) and deletes the messages for which it  *)
(* returned True.  The handler is split at its calls to external services, *)
(* so that concurrent invocations, visibility timeouts and failures of     *)
(* each call interleave.                                                   *)
(***************************************************************************)
EXTENDS Integers, Sequences, FiniteSets, TLC

---------------------------------------------------------------------------
(* Bounds of the model *)

\* concurrently running invocations of lambda_handler
NumInv == 2
\* invocations of lambda_handler started in one behaviour
MaxRuns == 2
\* hits in one OpenSearch response
MaxHits == 2
\* messages in the queue of the batch specification
BatchMsgs == 11

\* messages of the batch of the specification with terminations
HostMsgs == 2
\* distinct restaurant ids in the index of the sampling specification
MaxIds == 4

(* Program constants *)

\* receive_message(MaxNumberOfMessages=10)
MaxNumberOfMessages == 10
\* NUM_RESULTS = int(os.getenv("NUM_RESULTS", "3"))
NUM_RESULTS == 3

---------------------------------------------------------------------------
(* Python values of the payload fields and of the record attributes *)

\* a JSON value: t is its type; s its characters when a string, n its
\* value when a number
Val(t, s, n) == [t |-> t, s |-> s, n |-> n]
Absent == Val("absent", <<>>, 0)
PyNone == Val("null", <<>>, 0)
Str(s) == Val("str", s, 0)
Num(n) == Val("num", <<>>, n)

\* Python truthiness: None, "" and 0 are falsy
Truthy(v) ==
    CASE v.t = "str" -> v.s # <<>>
      [] v.t = "num" -> v.n # 0
      [] OTHER -> FALSE

\* dict.get(key): a missing key reads as None
Get(v) == IF v.t = "absent" THEN PyNone ELSE v

\* x or ""
OrEmpty(v) == IF Truthy(Get(v)) THEN Get(v) ELSE Str(<<>>)

IsSpace(c) == c = " "

RECURSIVE lstrip(_)
lstrip(s) == IF s # <<>> /\ IsSpace(Head(s)) THEN lstrip(Tail(s)) ELSE s

RECURSIVE rstrip(_)
rstrip(s) ==
    IF s # <<>> /\ IsSpace(s[Len(s)]) THEN rstrip(SubSeq(s, 1, Len(s) - 1)) ELSE s

\* str.strip()
strip(s) == rstrip(lstrip(s))

Lowers ==
    <<"a", "b", "c", "d", "e", "f", "g", "h", "i", "j", "k", "l", "m",
      "n", "o", "p", "q", "r", "s", "t", "u", "v", "w", "x", "y", "z">>

Uppers ==
    <<"A", "B", "C", "D", "E", "F", "G", "H", "I", "J", "K", "L", "M",
      "N", "O", "P", "Q", "R", "S", "T", "U", "V", "W", "X", "Y", "Z">>

LowerChar(c) ==
    IF \E k \in 1..26 : Uppers[k] = c
    THEN Lowers[CHOOSE k \in 1..26 : Uppers[k] = c]
    ELSE c

\* str.lower()
lower(s) == [k \in DOMAIN s |-> LowerChar(s[k])]

---------------------------------------------------------------------------
(* Message bodies *)

\* the Body of an SQS message: text that is no JSON ("invalid"), JSON that
\* is no object ("nonobject": a list, a number, null), no Body ("empty"),
\* or an object with its cuisine and email members (and without the
\* optional num_people, dining_date, dining_time and location)
Body(kind, cuisine, email) ==
    [ kind |-> kind, cuisine |-> cuisine, email |-> email,
      num_people |-> Absent, dining_date |-> Absent, dining_time |-> Absent,
      location |-> Absent ]

FieldVals ==
    { Absent, PyNone, Str(<<>>), Str(<<" ">>), Str(<<" ", "I", "t", " ">>),
      Str(<<"a@b">>), Num(0), Num(5) }

ObjectBodies == { Body("object", c, e) : c \in FieldVals, e \in FieldVals }

AllBodies ==
    ObjectBodies \cup
    { Body("invalid", Absent, Absent), Body("nonobject", Absent, Absent),
      Body("empty", Absent, Absent) }

GoodBody == Body("object", Str(<<" ", "I", "t", " ">>), Str(<<"a@b">>))

\* a request without an email
NoEmailBody == Body("object", Str(<<"a@b">>), Absent)

\* the optional members a payload can carry: missing, null, a well-formed
\* string, a malformed string, a number
PartyVals == { Absent, PyNone, Str(<<"2">>), Num(2) }

DateVals ==
    { Absent, PyNone, Num(5),
      Str(<<"2", "0", "2", "5", "-", "1", "0", "-", "0", "9">>),
      Str(<<"2", "0", "2", "5", "-", "1", "3", "-", "4", "0">>) }

TimeVals ==
    { Absent, Num(5), Str(<<"1", "9", ":", "0", "0">>), Str(<<"7", "p", "m">>) }

\* a well-formed request with its optional members
Request(num_people, dining_date, dining_time) ==
    [GoodBody EXCEPT !.num_people = num_people, !.dining_date = dining_date,
                     !.dining_time = dining_time]

Requests == { Request(p, d, t) : p \in PartyVals, d \in DateVals, t \in TimeVals }

---------------------------------------------------------------------------
(* State *)

VARIABLES
    queue,   \* the SQS queue: message id -> body, status, receive count
    inv,     \* the invocations of lambda_handler: position and locals
    outbox,  \* the emails SES accepted, counted per queued request
    runs     \* the invocations started so far

vars == <<queue, inv, outbox, runs>>

Msgs == DOMAIN queue
Invs == DOMAIN inv

\* the locals of process_one_message and of one loop iteration
NoCur ==
    [ m |-> 0, rh |-> 0, exit |-> "none", ok |-> FALSE, raised |-> FALSE,
      payload |-> <<>>, cuisine |-> <<>>, email |-> <<>>, ids |-> <<>>,
      details |-> <<>>, results |-> <<>>, subject |-> <<>>, text |-> <<>>,
      calls |-> <<>>, acked |-> FALSE, handled |-> FALSE ]

Idle ==
    [ pc |-> "idle", msgs |-> <<>>, idx |-> 0, processed |-> 0, cur |-> NoCur ]

---------------------------------------------------------------------------
(* process_one_message, before its first external call *)

ParseResult(exit, ok, raised, cuisine, email) ==
    [ exit |-> exit, ok |-> ok, raised |-> raised, cuisine |-> cuisine,
      email |-> email ]

\* lines 161-165: cuisine and email of the parsed payload.  exit names the
\* place where process_one_message ends ("none": it goes on to OpenSearch),
\* ok its return value, raised whether it ended by an exception (.strip()
\* of a non-string).
ParseObject(body) ==
    LET c == OrEmpty(body.cuisine) IN
    IF c.t # "str" THEN ParseResult("bad_field", FALSE, TRUE, <<>>, <<>>)
    ELSE LET e == OrEmpty(body.email) IN
         IF e.t # "str" THEN ParseResult("bad_field", FALSE, TRUE, <<>>, <<>>)
         ELSE LET cuisine == lower(strip(c.s))
                  email == strip(e.s)
              IN IF cuisine = <<>> \/ email = <<>>
                 THEN ParseResult("missing", TRUE, FALSE, cuisine, email)
                 ELSE ParseResult("none", FALSE, FALSE, cuisine, email)

\* a parser that discards what json.loads rejects
ParseMessage_DiscardBadJson(body) ==
    IF body.kind = "invalid" THEN ParseResult("bad_json", TRUE, FALSE, <<>>, <<>>)
    ELSE IF body.kind = "nonobject"
    THEN ParseResult("not_object", FALSE, TRUE, <<>>, <<>>)
    ELSE ParseObject(body)

\* lines 154-165: json.loads of the body (return False when it raises),
\* payload.get of a value that is no object raises, a missing Body reads
\* as "{}"
ParseMessage(body) ==
    IF body.kind = "invalid" THEN ParseResult("bad_json", FALSE, FALSE, <<>>, <<>>)
    ELSE IF body.kind = "nonobject"
    THEN ParseResult("not_object", FALSE, TRUE, <<>>, <<>>)
    ELSE ParseObject(body)

---------------------------------------------------------------------------
(* OpenSearch *)

Min(a, b) == IF a <= b THEN a ELSE b

RIDs == {"r1", "r2"}

\* one hit of a search response: _source.restaurant_id ("" when the
\* document has none) and _id
HitDocs ==
    { [restaurant_id |-> r, _id |-> r] : r \in RIDs } \cup
    { [restaurant_id |-> "", _id |-> "r2"] }

HitSeqs == UNION { [1..n -> HitDocs] : n \in 0..Min(MaxHits, NUM_RESULTS * 2) }

\* what http.request gives os_signed_request: status 0 stands for a
\* transport error (no response)
OSResponses ==
    { [status |-> s, hits |-> h] : s \in {200, 201}, h \in HitSeqs } \cup
    { [status |-> s, hits |-> <<>>] : s \in {0, 503} }

\* the restaurant ids of a larger index
RID(k) == <<"r1", "r2", "r3", "r4", "r5", "r6">>[k]

WideRIDs == { RID(k) : k \in 1..MaxIds }

WideHitDocs ==
    { [restaurant_id |-> r, _id |-> r] : r \in WideRIDs } \cup
    { [restaurant_id |-> "", _id |-> "r2"] }

\* the search is asked for size = NUM_RESULTS * 2 hits (line 169) and may
\* return any of them more than once
WideOSResponses ==
    { [status |-> 200, hits |-> h] :
          h \in UNION { [1..n -> WideHitDocs] : n \in 0..(NUM_RESULTS * 2) } } \cup
    { [status |-> 503, hits |-> <<>>] }

\* os_signed_request raises unless the status is 200 or 201
os_signed_request_raises(resp) == resp.status \notin {200, 201}

\* os_random_ids_by_cuisine, lines 57-64
os_random_ids_by_cuisine(resp) ==
    LET rid(h) == IF h.restaurant_id # "" THEN h.restaurant_id ELSE h._id
        rids == [k \in DOMAIN resp.hits |-> rid(resp.hits[k])]
    IN SelectSeq(rids, LAMBDA r : r # "")

\* list(dict.fromkeys(ids)): the first occurrence of each key, in order
RECURSIVE fromkeys(_)
fromkeys(ids) ==
    IF ids = <<>> THEN <<>>
    ELSE LET init == fromkeys(SubSeq(ids, 1, Len(ids) - 1))
             last == ids[Len(ids)]
         IN IF \E k \in DOMAIN init : init[k] = last THEN init
            ELSE Append(init, last)

\* line 174: list(dict.fromkeys(ids))[:NUM_RESULTS]
SampleIds(ids) ==
    LET d == fromkeys(ids) IN SubSeq(d, 1, Min(Len(d), NUM_RESULTS))

---------------------------------------------------------------------------
(* DynamoDB *)

\* the item the table holds for an id, in the projection of ddb_get_many:
\* r2 has no Address attribute, r3 no Name attribute
StoreItem(r) ==
    [ BusinessID |-> r,
      Name |-> IF r = "r3" THEN PyNone ELSE Str(<<"name", r>>),
      Address |-> IF r = "r2" THEN PyNone ELSE Str(<<"addr", r>>) ]

Range(s) == { s[k] : k \in DOMAIN s }

\* batch_get_item returns the items it found, or raises ("error")
DDBResponses(ids) ==
    { [error |-> FALSE, found |-> f] : f \in SUBSET Range(ids) } \cup
    { [error |-> TRUE, found |-> {}] }

\* ddb_get_many, lines 82-92: the dict of the items found, by BusinessID
ddb_get_many(found) == [r \in found |-> StoreItem(r)]

\* line 186: results = [details[i] for i in ids if i in details]
SelectResults(ids, details) ==
    LET kept == SelectSeq(ids, LAMBDA r : r \in DOMAIN details)
    IN [k \in DOMAIN kept |-> details[kept[k]]]

Results(ids, found) == SelectResults(ids, ddb_get_many(found))

---------------------------------------------------------------------------
(* SQS *)

\* the elements of a set of message ids in the order of the response
RECURSIVE Ascending(_)
Ascending(S) ==
    IF S = {} THEN <<>>
    ELSE LET x == CHOOSE x \in S : \A y \in S : x <= y
         IN <<x>> \o Ascending(S \ {x})

Visible(m) == queue[m].status = "visible"

\* a queue that hands out messages in flight as well
Receivable_InFlight == { m \in Msgs : queue[m].status # "deleted" }

\* the messages receive_message can return: those not in flight
Receivable == { m \in Msgs : Visible(m) }

\* a receive without MaxNumberOfMessages
ReceiveBatches_NoLimit == SUBSET Receivable

\* receive_message(MaxNumberOfMessages=10): any visible messages, at most
\* ten of them, possibly none
ReceiveBatches ==
    { S \in SUBSET Receivable : Cardinality(S) <= MaxNumberOfMessages }

\* delete_message(ReceiptHandle): removes the message; with a receipt
\* handle that is not the most recent one the call succeeds and the
\* message may or may not be removed (removed says which)
SqsDelete(m, rh, removed) ==
    IF rh = queue[m].recv \/ removed
    THEN [queue EXCEPT ![m].status = "deleted"]
    ELSE queue

---------------------------------------------------------------------------
(* format_email *)

Digits == <<"0", "1", "2", "3", "4", "5", "6", "7", "8", "9">>

IsDigit(c) == \E k \in 1..10 : Digits[k] = c

DigitVal(c) == (CHOOSE k \in 1..10 : Digits[k] = c) - 1

\* int() of a sequence of digits
RECURSIVE ToInt(_)
ToInt(s) ==
    IF s = <<>> THEN 0
    ELSE ToInt(SubSeq(s, 1, Len(s) - 1)) * 10 + DigitVal(s[Len(s)])

\* str() of a natural number
RECURSIVE Decimal(_)
Decimal(n) ==
    IF n < 10 THEN <<Digits[n + 1]>>
    ELSE Decimal(n \div 10) \o <<Digits[(n % 10) + 1]>>

\* the parts of s between the occurrences of sep
RECURSIVE Split(_, _)
Split(s, sep) ==
    IF \A k \in DOMAIN s : s[k] # sep THEN <<s>>
    ELSE LET k == CHOOSE k \in DOMAIN s : s[k] = sep /\ \A j \in 1..(k - 1) : s[j] # sep
         IN <<SubSeq(s, 1, k - 1)>> \o Split(SubSeq(s, k + 1, Len(s)), sep)

\* a directive of strptime that takes between lo and hi digits
Numeric(part, lo, hi) ==
    /\ Len(part) \in lo..hi
    /\ \A k \in DOMAIN part : IsDigit(part[k])

IsLeap(y) == (y % 4 = 0 /\ y % 100 # 0) \/ y % 400 = 0

DaysInMonth(y, m) ==
    CASE m = 2 -> IF IsLeap(y) THEN 29 ELSE 28
      [] m \in {4, 6, 9, 11} -> 30
      [] OTHER -> 31

\* datetime.strptime(s, "%Y-%m-%d"): ok is false where it raises ValueError
strptime_date(s) ==
    LET p == Split(s, "-")
        shaped == /\ Len(p) = 3
                  /\ Numeric(p[1], 4, 4) /\ Numeric(p[2], 1, 2) /\ Numeric(p[3], 1, 2)
        y == ToInt(p[1])
        m == ToInt(p[2])
        d == ToInt(p[3])
    IN IF shaped /\ y >= 1 /\ m \in 1..12 /\ d \in 1..DaysInMonth(y, m)
       THEN [ok |-> TRUE, y |-> y, m |-> m, d |-> d]
       ELSE [ok |-> FALSE, y |-> 0, m |-> 0, d |-> 0]

WeekdayNames ==
    <<"Saturday", "Sunday", "Monday", "Tuesday", "Wednesday", "Thursday", "Friday">>

MonthNames ==
    <<"January", "February", "March", "April", "May", "June", "July", "August",
      "September", "October", "November", "December">>

\* the day of the week of a date (%A), by Zeller's congruence
Weekday(y, m, d) ==
    LET mm == IF m < 3 THEN m + 12 ELSE m
        yy == IF m < 3 THEN y - 1 ELSE y
        k == yy % 100
        j == yy \div 100
    IN WeekdayNames[((d + ((13 * (mm + 1)) \div 5) + k + (k \div 4) + (j \div 4) + 5 * j) % 7) + 1]

\* date_obj.strftime("%A, %B %-d, %Y")
strftime_date(dt) ==
    <<Weekday(dt.y, dt.m, dt.d), ", ", MonthNames[dt.m], " ">> \o Decimal(dt.d)
        \o <<", ">> \o Decimal(dt.y)

\* datetime.strptime(s, "%H:%M")
strptime_time(s) ==
    LET p == Split(s, ":")
        shaped == Len(p) = 2 /\ Numeric(p[1], 1, 2) /\ Numeric(p[2], 1, 2)
        h == ToInt(p[1])
        mi == ToInt(p[2])
    IN IF shaped /\ h <= 23 /\ mi <= 59
       THEN [ok |-> TRUE, h |-> h, mi |-> mi]
       ELSE [ok |-> FALSE, h |-> 0, mi |-> 0]

\* time_obj.strftime("%-I %p").lower()
strftime_time(t) ==
    Decimal(IF t.h % 12 = 0 THEN 12 ELSE t.h % 12) \o <<" ", IF t.h < 12 THEN "am" ELSE "pm">>

\* f"{v}": the text of a value in an f-string
Format(v) ==
    CASE v.t = "str" -> v.s
      [] v.t = "num" -> Decimal(v.n)
      [] OTHER -> <<"None">>

UpperChar(c) ==
    IF c = "a@b" THEN "A@B"
    ELSE IF \E k \in 1..26 : Lowers[k] = c
    THEN Uppers[CHOOSE k \in 1..26 : Lowers[k] = c]
    ELSE c

IsAlpha(c) == \E k \in 1..26 : c \in {Lowers[k], Uppers[k]}

\* str.title(): a letter after a letter in lower case, any other in upper
title(s) ==
    [k \in DOMAIN s |->
        IF k > 1 /\ IsAlpha(s[k - 1]) THEN LowerChar(s[k]) ELSE UpperChar(s[k])]

\* sep.join(parts)
RECURSIVE Join(_, _)
Join(parts, sep) ==
    IF parts = <<>> THEN <<>>
    ELSE IF Len(parts) = 1 THEN parts[1]
    ELSE parts[1] \o <<sep>> \o Join(Tail(parts), sep)

\* format_email is given the dict enriched of lines 192-198.  strptime
\* raises TypeError for a value that is no string, which the except
\* ValueError clauses of lines 107 and 116 do not catch
Raises(body) ==
    \/ Truthy(Get(body.date)) /\ Get(body.date).t # "str"
    \/ Truthy(Get(body.time)) /\ Get(body.time).t # "str"

\* lines 98-99
PartyClause(body) ==
    IF Truthy(Get(body.partySize))
    THEN <<" for ">> \o Format(Get(body.partySize)) \o <<" people">> ELSE <<>>

\* lines 103-108: the date as strftime writes it, or as it came
DatePart(body) ==
    LET date == Get(body.date) IN
    IF ~Truthy(date) THEN <<>>
    ELSE LET date_obj == strptime_date(date.s)
         IN IF date_obj.ok THEN <<strftime_date(date_obj)>> ELSE <<date.s>>

\* lines 110-117
TimePart(body) ==
    LET time == Get(body.time) IN
    IF ~Truthy(time) THEN <<>>
    ELSE LET time_obj == strptime_time(time.s)
         IN IF time_obj.ok THEN << <<"at ">> \o strftime_time(time_obj) >>
            ELSE << <<"at ">> \o time.s >>

\* an intro that tells how many restaurants follow
Intro_WithCount(body) ==
    LET when_parts == DatePart(body) \o TimePart(body)
        when == IF when_parts = <<>> THEN <<>>
                ELSE <<", for ">> \o Join(when_parts, " ")
    IN <<"Hello! Here are my ">> \o Decimal(Len(body.results)) \o <<" ">>
          \o title(body.cuisine)
          \o <<" restaurant suggestions">> \o PartyClause(body) \o when \o <<":">>

\* lines 96-122: the intro line
Intro(body) ==
    LET when_parts == DatePart(body) \o TimePart(body)
        when == IF when_parts = <<>> THEN <<>>
                ELSE <<", for ">> \o Join(when_parts, " ")
    IN <<"Hello! Here are my ">> \o title(body.cuisine)
          \o <<" restaurant suggestions">> \o PartyClause(body) \o when \o <<":">>

\* lines 127-129: the line of the record r, numbered i
Piece(i, r) ==
    Decimal(i) \o <<". ">> \o Format(r.Name) \o
        (IF Truthy(Get(r.Address)) THEN <<", located at ">> \o Format(r.Address)
         ELSE <<>>)

\* an enumerate without start=1
format_email_FromZero(body) ==
    [ raised |-> Raises(body),
      text |-> IF Raises(body) THEN <<>>
               ELSE <<Intro(body)>>
                       \o [i \in DOMAIN body.results |-> Piece(i - 1, body.results[i])]
                       \o << <<>>, <<"Enjoy your meal!">> >> ]

\* format_email, lines 94-134.  raised: an exception leaves it; text: the
\* lines of the body it returns
format_email(body) ==
    [ raised |-> Raises(body),
      text |-> IF Raises(body) THEN <<>>
               ELSE <<Intro(body)>>
                       \o [i \in DOMAIN body.results |-> Piece(i, body.results[i])]
                       \o << <<>>, <<"Enjoy your meal!">> >> ]

---------------------------------------------------------------------------
(* process_one_message, from its first external call on *)

\* the external calls made for the current message and how each ended
Call(c, fn, res) == [c EXCEPT !.calls = Append(@, [fn |-> fn, res |-> res])]

\* process_one_message has ended: its return value, or the exception that
\* lambda_handler catches (ok stays False), reaches line 228; its own
\* locals are gone
Ended(c, exit, ok, raised) ==
    [c EXCEPT !.exit = exit, !.ok = ok, !.raised = raised,
              !.payload = <<>>, !.cuisine = <<>>, !.email = <<>>, !.ids = <<>>,
              !.details = <<>>, !.results = <<>>, !.subject = <<>>, !.text = <<>>]

\* the locals and the position of the handler after a step
To(c, pc) == [cur |-> c, pc |-> pc]

Step(v, r) == [v EXCEPT !.cur = r.cur, !.pc = r.pc]

\* lines 154-165 for the message msg of the batch
AfterParse(msg, body) ==
    LET p == ParseMessage(body)
        c == [NoCur EXCEPT !.m = msg.id, !.rh = msg.rh, !.payload = body,
                           !.cuisine = p.cuisine, !.email = p.email]
    IN IF p.exit = "none" THEN To(c, "sample")
       ELSE To(Ended(c, p.exit, p.ok, p.raised), "ack")

\* lines 167-172: the OpenSearch query; ids holds what
\* os_random_ids_by_cuisine returned
AfterQuery(c, resp) ==
    LET raises == os_signed_request_raises(resp)
        res == IF raises THEN "raised"
               ELSE IF resp.hits = <<>> THEN "nohits" ELSE "hits"
        cc == Call(c, "opensearch", res)
    IN IF raises THEN To(Ended(cc, "os_failed", FALSE, FALSE), "ack")
       ELSE To([cc EXCEPT !.ids = os_random_ids_by_cuisine(resp)], "dedup")

\* a sample that is cut to NUM_RESULTS before the duplicates are dropped
AfterDedup_TruncateFirst(c) ==
    LET ids == fromkeys(SubSeq(c.ids, 1, Min(Len(c.ids), NUM_RESULTS)))
    IN IF ids = <<>> THEN To(Ended(c, "no_hits", TRUE, FALSE), "ack")
       ELSE To([c EXCEPT !.ids = ids], "fetch")

\* lines 174-177: deduplication and truncation of ids
AfterDedup(c) ==
    LET ids == SampleIds(c.ids)
    IN IF ids = <<>> THEN To(Ended(c, "no_hits", TRUE, FALSE), "ack")
       ELSE To([c EXCEPT !.ids = ids], "fetch")

\* lines 167-177 in one step
AfterSample(c, resp) ==
    LET q == AfterQuery(c, resp)
    IN IF q.pc = "ack" THEN q ELSE AfterDedup(q.cur)

\* a fetch that takes a failed read for an empty one
AfterFetch_SwallowError(c, resp) ==
    LET res == IF resp.error THEN "raised"
               ELSE IF resp.found = {} THEN "none" ELSE "some"
        cc == Call(c, "dynamodb", res)
        results == Results(c.ids, resp.found)
    IN IF results = <<>> THEN To(Ended(cc, "no_matches", TRUE, FALSE), "ack")
       ELSE To([cc EXCEPT !.results = results], "send")

\* a fetch that goes on to the email without any record
AfterFetch_NoEmptyCheck(c, resp) ==
    LET res == IF resp.error THEN "raised"
               ELSE IF resp.found = {} THEN "none" ELSE "some"
        cc == Call(c, "dynamodb", res)
        results == Results(c.ids, resp.found)
    IN IF resp.error THEN To(Ended(cc, "ddb_failed", FALSE, FALSE), "ack")
       ELSE To([cc EXCEPT !.results = results], "send")

\* lines 179-184: the DynamoDB batch read
AfterDetails(c, resp) ==
    LET res == IF resp.error THEN "raised"
               ELSE IF resp.found = {} THEN "none" ELSE "some"
        cc == Call(c, "dynamodb", res)
    IN IF resp.error THEN To(Ended(cc, "ddb_failed", FALSE, FALSE), "ack")
       ELSE To([cc EXCEPT !.details = ddb_get_many(resp.found)], "select")

\* a selection that lists the records in the order of the table
AfterSelect_StoreOrder(c) ==
    LET all == [k \in 1..6 |-> RID(k)]
        kept == SelectSeq(all, LAMBDA r : r \in DOMAIN c.details)
        results == [k \in DOMAIN kept |-> c.details[kept[k]]]
    IN IF results = <<>> THEN To(Ended(c, "no_matches", TRUE, FALSE), "ack")
       ELSE To([c EXCEPT !.results = results], "send")

\* lines 186-189: the records kept, in the order of the sample
AfterSelect(c) ==
    LET results == SelectResults(c.ids, c.details)
    IN IF results = <<>> THEN To(Ended(c, "no_matches", TRUE, FALSE), "ack")
       ELSE To([c EXCEPT !.results = results], "send")

\* lines 179-189 in one step
AfterFetch(c, resp) ==
    LET d == AfterDetails(c, resp)
    IN IF d.pc = "ack" THEN d ELSE AfterSelect(d.cur)

\* what ses.send_email does: it accepts the email, raises ClientError (the
\* provider rejects it), or raises an exception that is no ClientError (a
\* botocore connection or timeout error)
SESOutcomes == {"accepted", "ClientError", "OtherError"}

\* a send_email without its except clause
send_email_NoCatch(outcome) ==
    CASE outcome = "accepted" -> "True"
      [] OTHER -> "raise"

\* send_email, lines 136-150: its return value, or "raise" when the
\* exception is not the ClientError it catches
send_email(outcome) ==
    CASE outcome = "accepted" -> "True"
      [] outcome = "ClientError" -> "False"
      [] OTHER -> "raise"

\* lines 192-198: the dict handed to format_email
Enriched(c) ==
    [ cuisine |-> c.cuisine,
      partySize |-> Get(c.payload.num_people),
      date |-> Get(c.payload.dining_date),
      time |-> Get(c.payload.dining_time),
      results |-> c.results ]

\* lines 191-200: subject and text; an exception of format_email leaves
\* process_one_message
AfterCompose(c) ==
    LET f == format_email(Enriched(c))
        subject == title(c.cuisine) \o <<" restaurant suggestions">>
    IN IF f.raised
       THEN To(Ended(Call(c, "format_email", "raised"), "compose_raised", FALSE, TRUE), "ack")
       ELSE To([Call(c, "format_email", "ok") EXCEPT !.subject = subject, !.text = f.text],
               "deliver")

\* a send that is tried a second time when SES rejects the email
AfterDeliver_SendAgain(c, outcome) ==
    LET cc == IF outcome = "ClientError"
              THEN Call(Call(c, "send_email", outcome), "send_email", outcome)
              ELSE Call(c, "send_email", outcome)
        sent == send_email(outcome)
    IN CASE sent = "True" -> To(Ended(cc, "sent", TRUE, FALSE), "ack")
         [] sent = "False" -> To(Ended(cc, "send_false", FALSE, FALSE), "ack")
         [] OTHER -> To(Ended(cc, "send_raised", FALSE, TRUE), "ack")

\* lines 202-208: send_email and the return value
AfterDeliver(c, outcome) ==
    LET cc == Call(c, "send_email", outcome)
        sent == send_email(outcome)
    IN CASE sent = "True" -> To(Ended(cc, "sent", TRUE, FALSE), "ack")
         [] sent = "False" -> To(Ended(cc, "send_false", FALSE, FALSE), "ack")
         [] OTHER -> To(Ended(cc, "send_raised", FALSE, TRUE), "ack")

\* lines 191-208 in one step
AfterSend(c, outcome) ==
    LET q == AfterCompose(c)
    IN IF q.pc = "ack" THEN q ELSE AfterDeliver(q.cur, outcome)

---------------------------------------------------------------------------
(* lambda_handler *)

\* the messages of a response, each with its ReceiptHandle
Messages(S) ==
    LET ids == Ascending(S)
    IN [k \in DOMAIN ids |-> [id |-> ids[k], rh |-> queue[ids[k]].recv + 1]]

\* lines 212-221: receive_message and the return for an empty batch
Receive(i) ==
    /\ inv[i].pc = "idle"
    /\ runs < MaxRuns
    /\ runs' = runs + 1
    /\ \E S \in ReceiveBatches :
          /\ queue' = [m \in Msgs |->
                          IF m \in S
                          THEN [queue[m] EXCEPT !.status = "inflight", !.recv = @ + 1]
                          ELSE queue[m]]
          /\ inv' = [inv EXCEPT ![i] =
                        [ pc |-> IF S = {} THEN "done" ELSE "process",
                          msgs |-> Messages(S), idx |-> 1, processed |-> 0,
                          cur |-> NoCur ]]
    /\ UNCHANGED outbox

\* a loop that deletes a message as soon as it takes it from the batch
Process_AckFirst(i) ==
    /\ inv[i].pc = "process"
    /\ LET msg == inv[i].msgs[inv[i].idx]
       IN /\ inv' = [inv EXCEPT ![i] = Step(@, AfterParse(msg, queue[msg.id].body))]
          /\ queue' = SqsDelete(msg.id, msg.rh, TRUE)
    /\ UNCHANGED <<outbox, runs>>

\* lines 222-225 and 154-165: the loop takes the next message of the batch
\* and process_one_message parses it
Process(i) ==
    /\ inv[i].pc = "process"
    /\ LET msg == inv[i].msgs[inv[i].idx]
       IN inv' = [inv EXCEPT ![i] = Step(@, AfterParse(msg, queue[msg.id].body))]
    /\ UNCHANGED <<queue, outbox, runs>>

Sample(i) ==
    /\ inv[i].pc = "sample"
    /\ \E resp \in OSResponses :
          inv' = [inv EXCEPT ![i] = Step(@, AfterSample(@.cur, resp))]
    /\ UNCHANGED <<queue, outbox, runs>>

\* lines 167-172 alone, with the response of the larger index
Query(i) ==
    /\ inv[i].pc = "sample"
    /\ \E resp \in WideOSResponses :
          inv' = [inv EXCEPT ![i] = Step(@, AfterQuery(@.cur, resp))]
    /\ UNCHANGED <<queue, outbox, runs>>

\* lines 167-172 alone; the identifiers the index returned are noted in the
\* record of the calls
QueryNoted(i) ==
    /\ inv[i].pc = "sample"
    /\ \E resp \in WideOSResponses :
          LET q == AfterQuery(inv[i].cur, resp)
              noted == Call(q.cur, "returned", os_random_ids_by_cuisine(resp))
          IN inv' = [inv EXCEPT ![i] = Step(@, To(noted, q.pc))]
    /\ UNCHANGED <<queue, outbox, runs>>

\* lines 174-177 alone
Dedup(i) ==
    /\ inv[i].pc = "dedup"
    /\ inv' = [inv EXCEPT ![i] = Step(@, AfterDedup(@.cur))]
    /\ UNCHANGED <<queue, outbox, runs>>

Fetch(i) ==
    /\ inv[i].pc = "fetch"
    /\ \E resp \in DDBResponses(inv[i].cur.ids) :
          inv' = [inv EXCEPT ![i] = Step(@, AfterFetch(@.cur, resp))]
    /\ UNCHANGED <<queue, outbox, runs>>

\* lines 179-184 alone
Details(i) ==
    /\ inv[i].pc = "fetch"
    /\ \E resp \in DDBResponses(inv[i].cur.ids) :
          inv' = [inv EXCEPT ![i] = Step(@, AfterDetails(@.cur, resp))]
    /\ UNCHANGED <<queue, outbox, runs>>

\* the restaurants of the index that the table holds: all but r2
Table == WideRIDs \ {"r2"}

\* lines 179-184 alone, batch_get_item returning every requested item
\* that the table holds
DetailsOfTable(i) ==
    /\ inv[i].pc = "fetch"
    /\ LET resp == [error |-> FALSE, found |-> Range(inv[i].cur.ids) \cap Table]
       IN inv' = [inv EXCEPT ![i] = Step(@, AfterDetails(@.cur, resp))]
    /\ UNCHANGED <<queue, outbox, runs>>

\* lines 186-189 alone
Select(i) ==
    /\ inv[i].pc = "select"
    /\ inv' = [inv EXCEPT ![i] = Step(@, AfterSelect(@.cur))]
    /\ UNCHANGED <<queue, outbox, runs>>

\* SES delivers the emails it accepts
Send(i) ==
    /\ inv[i].pc = "send"
    /\ \E outcome \in SESOutcomes :
          LET r == AfterSend(inv[i].cur, outcome) IN
          /\ inv' = [inv EXCEPT ![i] = Step(@, r)]
          /\ outbox' = IF r.cur.exit = "sent"
                       THEN [outbox EXCEPT ![inv[i].cur.m] = @ + 1]
                       ELSE outbox
    /\ UNCHANGED <<queue, runs>>

\* lines 191-200 alone
Compose(i) ==
    /\ inv[i].pc = "send"
    /\ inv' = [inv EXCEPT ![i] = Step(@, AfterCompose(@.cur))]
    /\ UNCHANGED <<queue, outbox, runs>>

\* lines 202-208 alone
Deliver(i) ==
    /\ inv[i].pc = "deliver"
    /\ \E outcome \in SESOutcomes :
          LET r == AfterDeliver(inv[i].cur, outcome) IN
          /\ inv' = [inv EXCEPT ![i] = Step(@, r)]
          /\ outbox' = IF r.cur.exit = "sent"
                       THEN [outbox EXCEPT ![inv[i].cur.m] = @ + 1]
                       ELSE outbox
    /\ UNCHANGED <<queue, runs>>

\* what sqs.delete_message does: it succeeds and removes the message,
\* succeeds without removing it (possible with a stale receipt handle
\* only), or raises
DeleteOutcomes == {"removed", "kept", "error"}

\* a handler that deletes every message it has processed
ShouldDelete_Always(c) == TRUE

\* line 228: whether delete_message is called for the message
ShouldDelete(c) == c.ok

\* a loop that takes the same message again
AfterMessage_NoAdvance(v) == [v EXCEPT !.pc = "process"]

\* the position after one loop iteration: the next message, or the return
\* of line 231
AfterMessage(v) ==
    [v EXCEPT !.idx = @ + 1, !.pc = IF v.idx < Len(v.msgs) THEN "process" ELSE "done"]

\* delete_message raised at line 229, outside the try of lines 224-227:
\* the exception leaves lambda_handler
DeleteRaised(v) == [v EXCEPT !.pc = "raised"]

\* lines 228-230, the end of the loop and the return of line 231
Ack(i) ==
    /\ inv[i].pc = "ack"
    /\ LET c == [inv[i].cur EXCEPT !.handled = TRUE] IN
       IF ShouldDelete(c)
       THEN \E outcome \in DeleteOutcomes :
               IF outcome = "error"
               THEN /\ inv' = [inv EXCEPT ![i] =
                          DeleteRaised([@ EXCEPT !.cur = Call(c, "delete_message", "raised")])]
                    /\ UNCHANGED queue
               ELSE /\ queue' = SqsDelete(c.m, c.rh, outcome = "removed")
                    /\ inv' = [inv EXCEPT ![i] =
                          AfterMessage([@ EXCEPT
                              !.processed = @ + 1,
                              !.cur = [Call(c, "delete_message", "ok") EXCEPT !.acked = TRUE]])]
       ELSE /\ inv' = [inv EXCEPT ![i] = AfterMessage([@ EXCEPT !.cur = c])]
            /\ UNCHANGED queue
    /\ UNCHANGED <<outbox, runs>>

\* the invocation is over (line 219 or 231 returned, or an exception left
\* lambda_handler): the function can be invoked again
Finish(i) ==
    /\ inv[i].pc \in {"done", "raised"}
    /\ inv' = [inv EXCEPT ![i] = Idle]
    /\ UNCHANGED <<queue, outbox, runs>>

\* the positions of an invocation that is running
Running == {"process", "sample", "dedup", "fetch", "select", "send", "deliver", "ack", "hung"}

\* the Lambda service ends the invocation (its timeout ran out, or the
\* execution environment is lost) wherever it is; the locals are kept as
\* they were at that moment
Terminate(i) ==
    /\ inv[i].pc \in Running
    /\ inv' = [inv EXCEPT ![i].pc = "killed"]
    /\ UNCHANGED <<queue, outbox, runs>>

\* the invocation is ended inside the delete_message call of line 229,
\* after the queue has carried out the delete and before the call returns
TerminateInDelete(i) ==
    /\ inv[i].pc = "ack"
    /\ ShouldDelete(inv[i].cur)
    /\ queue' = SqsDelete(inv[i].cur.m, inv[i].cur.rh, TRUE)
    /\ inv' = [inv EXCEPT ![i].pc = "killed",
                          ![i].cur = Call(@, "delete_message", "unanswered")]
    /\ UNCHANGED <<outbox, runs>>

\* the request of line 40 gets no answer: http = urllib3.PoolManager()
\* (line 26) and http.request (line 40) set no timeout, so the call never
\* returns
Stall(i) ==
    /\ inv[i].pc = "sample"
    /\ inv' = [inv EXCEPT ![i].pc = "hung",
                          ![i].cur = Call(@, "opensearch", "stalled")]
    /\ UNCHANGED <<queue, outbox, runs>>

\* the visibility timeout of a received message (VisibilityTimeout=30)
\* runs out: the queue makes the message visible again
Expire(m) ==
    /\ queue[m].status = "inflight"
    /\ queue' = [queue EXCEPT ![m].status = "visible"]
    /\ UNCHANGED <<inv, outbox, runs>>

---------------------------------------------------------------------------
(* Specifications *)

\* a message as send_message leaves it in the queue
Queued(body) == [body |-> body, status |-> "visible", recv |-> 0]

\* the queue q, k invocation slots, r invocations already over
Start(q, k, r) ==
    /\ queue = q
    /\ inv = [i \in 1..k |-> Idle]
    /\ outbox = [m \in DOMAIN q |-> 0]
    /\ runs = r

\* one request in the queue, with any body; invocations one after another
Init == \E b \in AllBodies : Start(<<Queued(b)>>, 1, 0)

Next ==
    \/ \E i \in Invs : Receive(i)
    \/ \E i \in Invs : Process(i)
    \/ \E i \in Invs : Sample(i)
    \/ \E i \in Invs : Fetch(i)
    \/ \E i \in Invs : Send(i)
    \/ \E i \in Invs : Ack(i)
    \/ \E i \in Invs : Finish(i)
    \/ \E m \in Msgs : Expire(m)

Spec == Init /\ [][Next]_vars

\* one well-formed request, NumInv invocations that may overlap
InitConc == Start(<<Queued(GoodBody)>>, NumInv, 0)

SpecConc == InitConc /\ [][Next]_vars

\* BatchMsgs requests, all but one without an email, the well-formed one
\* first or last; the last invocation of a behaviour, followed within the
\* visibility timeout of its batch
InitBatch ==
    \E g \in {1, BatchMsgs} :
        Start([m \in 1..BatchMsgs |->
                  Queued(IF m = g THEN GoodBody ELSE NoEmailBody)],
              1, MaxRuns - 1)

NextBatch ==
    \/ \E i \in Invs : Receive(i)
    \/ \E i \in Invs : Process(i)
    \/ \E i \in Invs : Sample(i)
    \/ \E i \in Invs : Fetch(i)
    \/ \E i \in Invs : Send(i)
    \/ \E i \in Invs : Ack(i)
    \/ \E i \in Invs : Finish(i)

SpecBatch == InitBatch /\ [][NextBatch]_vars

\* one well-formed request and one invocation, with the larger index and
\* process_one_message split at every statement the claims speak of
InitSample == Start(<<Queued(GoodBody)>>, 1, MaxRuns - 1)

NextSample ==
    \/ \E i \in Invs : Receive(i)
    \/ \E i \in Invs : Process(i)
    \/ \E i \in Invs : Query(i)
    \/ \E i \in Invs : Dedup(i)
    \/ \E i \in Invs : Details(i)
    \/ \E i \in Invs : Select(i)
    \/ \E i \in Invs : Compose(i)
    \/ \E i \in Invs : Deliver(i)
    \/ \E i \in Invs : Ack(i)
    \/ \E i \in Invs : Finish(i)

SpecSample == InitSample /\ [][NextSample]_vars

\* the same for one request with any optional members
InitCompose == \E b \in Requests : Start(<<Queued(b)>>, 1, MaxRuns - 1)

SpecCompose == InitCompose /\ [][NextSample]_vars

\* a request with all its optional members
FullRequest ==
    Request(Num(2), Str(<<"2", "0", "2", "5", "-", "1", "0", "-", "0", "9">>),
            Str(<<"1", "9", ":", "0", "0">>))

\* one request and the last two invocations of a behaviour, which may
\* overlap once the visibility timeout of the first receipt ran out
InitRedeliver == Start(<<Queued(FullRequest)>>, NumInv, MaxRuns - 2)

NextRedeliver ==
    \/ \E i \in Invs : Receive(i)
    \/ \E i \in Invs : Process(i)
    \/ \E i \in Invs : Sample(i)
    \/ \E i \in Invs : Fetch(i)
    \/ \E i \in Invs : Compose(i)
    \/ \E i \in Invs : Deliver(i)
    \/ \E i \in Invs : Ack(i)
    \/ \E i \in Invs : Finish(i)
    \/ \E m \in Msgs : Expire(m)

SpecRedeliver == InitRedeliver /\ [][NextRedeliver]_vars

\* a batch of HostMsgs well-formed requests for the last invocation of a
\* behaviour, which the Lambda service may end at any point and whose
\* calls may stall
InitHost == Start([m \in 1..HostMsgs |-> Queued(GoodBody)], 1, MaxRuns - 1)

NextHost ==
    \/ \E i \in Invs : Receive(i)
    \/ \E i \in Invs : Process(i)
    \/ \E i \in Invs : Sample(i)
    \/ \E i \in Invs : Stall(i)
    \/ \E i \in Invs : Fetch(i)
    \/ \E i \in Invs : Send(i)
    \/ \E i \in Invs : Ack(i)
    \/ \E i \in Invs : Finish(i)
    \/ \E i \in Invs : Terminate(i)
    \/ \E i \in Invs : TerminateInDelete(i)
    \/ \E m \in Msgs : Expire(m)

SpecHost == InitHost /\ [][NextHost]_vars

\* one well-formed request and one invocation, with the larger index and
\* a table that lacks one of its restaurants
NextStore ==
    \/ \E i \in Invs : Receive(i)
    \/ \E i \in Invs : Process(i)
    \/ \E i \in Invs : QueryNoted(i)
    \/ \E i \in Invs : Dedup(i)
    \/ \E i \in Invs : DetailsOfTable(i)
    \/ \E i \in Invs : Select(i)
    \/ \E i \in Invs : Compose(i)
    \/ \E i \in Invs : Deliver(i)
    \/ \E i \in Invs : Ack(i)
    \/ \E i \in Invs : Finish(i)

SpecStore == InitSample /\ [][NextStore]_vars

---------------------------------------------------------------------------
(* What the claims speak of *)

\* the current message of invocation i has been through one whole loop
\* iteration (lines 222-230)
Handled(i) == inv[i].cur.handled

BodyOf(i) == queue[inv[i].cur.m].body

\* the call fn was made for the message and ended with res
Did(c, fn, res) == \E k \in DOMAIN c.calls : c.calls[k] = [fn |-> fn, res |-> res]

Called(c, fn) == \E k \in DOMAIN c.calls : c.calls[k].fn = fn

DeleteIssued(c) == Called(c, "delete_message")

\* the message is gone from the queue
Removed(m) == queue[m].status = "deleted"

\* the body is no JSON object
Unparseable(body) == body.kind \in {"invalid", "nonobject"}

\* a member that is missing, null, empty or whitespace-only
Blank(v) == v.t \in {"absent", "null"} \/ (v.t = "str" /\ strip(v.s) = <<>>)

\* a member that Python takes for false: missing, null, "" or 0
Falsy(v) == v.t \in {"absent", "null"} \/ v = Str(<<>>) \/ v = Num(0)

\* the members have the types of the inbound message format
WellTyped(body) ==
    body.cuisine.t \in {"absent", "null", "str"} /\ body.email.t \in {"absent", "null", "str"}

\* a parsed payload without a cuisine or without an email
LacksField(body) == ~Unparseable(body) /\ (Blank(body.cuisine) \/ Blank(body.email))

\* a downstream call of the attempt failed
Transient(c) ==
    \/ Did(c, "opensearch", "raised")
    \/ Did(c, "dynamodb", "raised")
    \/ Did(c, "send_email", "ClientError")
    \/ Did(c, "send_email", "OtherError")

NoResults(c) == Did(c, "opensearch", "nohits") \/ Did(c, "dynamodb", "none")

Delivered(c) == Did(c, "send_email", "accepted")

\* the outcome of section 4.6 of the specification for a handled message
Outcome(c, body) ==
    CASE Unparseable(body) \/ LacksField(body) -> "DiscardMalformed"
      [] Transient(c) -> "TransientFailure"
      [] NoResults(c) -> "DiscardNoResults"
      [] Delivered(c) -> "Delivered"
      [] OTHER -> "none"

Acknowledged == {"Delivered", "DiscardMalformed", "DiscardNoResults"}

---------------------------------------------------------------------------
(* C1 *)

---------------------------------------------------------------------------
(* C2 *)

---------------------------------------------------------------------------
(* C3 *)

\* C3: a parsed payload whose cuisine or email is missing, null, empty or
\* whitespace-only is discarded: it is deleted, and neither OpenSearch nor
\* DynamoDB nor SES is called for it.
C3_LackingFieldDiscarded ==
    \A i \in Invs :
        (Handled(i) /\ LacksField(BodyOf(i))) =>
            /\ DeleteIssued(inv[i].cur)
            /\ ~Called(inv[i].cur, "opensearch")
            /\ ~Called(inv[i].cur, "dynamodb")
            /\ ~Called(inv[i].cur, "send_email")

---------------------------------------------------------------------------
(* C4 *)

\* C4: when the OpenSearch call or the DynamoDB call of an attempt raises,
\* process_one_message returns False: neither format_email nor send_email
\* is called, delete_message is not called, and the message is still in the
\* queue.
C4_StoreFailureRetried ==
    \A i \in Invs :
        LET c == inv[i].cur IN
        (Handled(i) /\ (Did(c, "opensearch", "raised") \/ Did(c, "dynamodb", "raised"))) =>
            /\ ~c.ok
            /\ ~Called(c, "format_email")
            /\ ~Called(c, "send_email")
            /\ ~DeleteIssued(c)
            /\ ~Removed(c.m)

\* the DynamoDB read of a handled message raised
C4_Witness ==
    \E i \in Invs : Handled(i) /\ Did(inv[i].cur, "dynamodb", "raised")

---------------------------------------------------------------------------
(* C5 *)

\* C5 as stated: no failure of the delivery leaves send_email as an
\* exception; send_email returns False and the message is not deleted.
C5_SendNeverRaisesAsStated ==
    \A i \in Invs :
        LET c == inv[i].cur IN
        (Handled(i) /\ (Did(c, "send_email", "ClientError") \/ Did(c, "send_email", "OtherError"))) =>
            /\ ~c.raised
            /\ ~DeleteIssued(c)

\* C5, amended: a rejection by the provider (ClientError) does not leave
\* send_email: it returns False; any other exception of the SES call does
\* leave send_email and process_one_message and is caught by
\* lambda_handler.  Either way the message is not deleted and stays in the
\* queue, and the handler goes on.
C5_SendFailureRetried ==
    \A i \in Invs :
        LET c == inv[i].cur IN
        /\ (Handled(i) /\ Did(c, "send_email", "ClientError")) =>
              /\ ~c.raised /\ c.exit = "send_false" /\ ~c.ok
              /\ ~DeleteIssued(c) /\ ~Removed(c.m) /\ inv[i].pc # "raised"
        /\ (Handled(i) /\ Did(c, "send_email", "OtherError")) =>
              /\ c.raised /\ ~c.ok
              /\ ~DeleteIssued(c) /\ ~Removed(c.m) /\ inv[i].pc # "raised"

\* the provider rejected the email of a handled message
C5_Witness ==
    \E i \in Invs : Handled(i) /\ Did(inv[i].cur, "send_email", "ClientError")

---------------------------------------------------------------------------
(* C6 *)

\* C6: when the search returns no identifier, or DynamoDB resolves none of
\* the sampled identifiers, process_one_message returns True without calling
\* format_email or send_email, and delete_message is called for the message
\* (which removes it unless the call itself raises).
C6_NoResultsDiscarded ==
    \A i \in Invs :
        LET c == inv[i].cur IN
        (Handled(i) /\ NoResults(c)) =>
            /\ ~Called(c, "format_email")
            /\ ~Called(c, "send_email")
            /\ \/ Did(c, "delete_message", "ok") /\ Removed(c.m)
               \/ Did(c, "delete_message", "raised")

\* no sampled identifier was in the table, and the message has been deleted
C6_Witness ==
    \E i \in Invs :
        Handled(i) /\ Did(inv[i].cur, "dynamodb", "none") /\ Removed(inv[i].cur.m)

---------------------------------------------------------------------------
(* C7 *)

\* the invocation is over: it returned or an exception left it
Over(i) == inv[i].pc \in {"done", "raised"}

\* C7: a failure while handling one message (in parsing, sampling,
\* fetching, composing, delivering or acknowledging it) neither keeps the
\* remaining messages of the batch from being processed nor makes the
\* invocation raise: an invocation ends by returning, with every message of
\* its batch handled.
C7_BatchIsolation ==
    \A i \in Invs :
        /\ inv[i].pc # "raised"
        /\ Over(i) => inv[i].idx > Len(inv[i].msgs)

---------------------------------------------------------------------------
(* C8 *)

\* C8 as stated: the email of one queued request is delivered at most once.
C8_AtMostOnceAsStated == \A m \in Msgs : outbox[m] <= 1

\* C8, amended: the email of a request is delivered at most once for each
\* receipt of its message, so at most as often as the message was received;
\* a message that is redelivered after a successful send (its delete failed,
\* or its visibility timeout ran out first) is emailed again.
C8_OncePerReceipt == \A m \in Msgs : outbox[m] <= queue[m].recv

\* a request emailed twice, on two receipts of its message
C8_Witness == \E m \in Msgs : outbox[m] = 2 /\ queue[m].recv = 2

---------------------------------------------------------------------------
(* C9 *)

\* invocation i holds message m: it received m and has neither finished
\* the loop iteration of m nor ended
Holds(i, m) ==
    /\ inv[i].pc \in {"process", "sample", "fetch", "send", "ack"}
    /\ \E k \in inv[i].idx..Len(inv[i].msgs) : inv[i].msgs[k].id = m

---------------------------------------------------------------------------
(* C10 *)

\* the messages of the batch of i that are gone from the queue
RemovedOf(i) == { k \in DOMAIN inv[i].msgs : Removed(inv[i].msgs[k].id) }

\* C10: an invocation receives at most 10 messages; its processed count
\* never exceeds the number of messages received and equals, at the return
\* as after every loop iteration, the number of messages of the batch it has
\* deleted.
C10_BatchCount ==
    \A i \in Invs :
        /\ Len(inv[i].msgs) <= MaxNumberOfMessages
        /\ inv[i].processed <= Len(inv[i].msgs)
        /\ inv[i].processed = Cardinality(RemovedOf(i))

\* an invocation returns 10 for a batch of 10 while a message is left over
C10_Witness ==
    \E i \in Invs :
        /\ inv[i].pc = "done"
        /\ Len(inv[i].msgs) = MaxNumberOfMessages
        /\ inv[i].processed = MaxNumberOfMessages
        /\ \E m \in Msgs : Visible(m)

---------------------------------------------------------------------------
(* C11 *)

NoDuplicates(s) == \A a, b \in DOMAIN s : s[a] = s[b] => a = b

\* the place of the first occurrence of x in s
FirstIndex(s, x) == CHOOSE k \in DOMAIN s : s[k] = x /\ \A j \in 1..(k - 1) : s[j] # x

\* out holds, without repetition and in the order of their first
\* occurrences in raw, the first identifiers of raw, at most n of them
FirstOccurrences(raw, out, n) ==
    /\ NoDuplicates(out)
    /\ Range(out) \subseteq Range(raw)
    /\ Len(out) = Min(n, Cardinality(Range(raw)))
    /\ \A a, b \in DOMAIN out :
          a < b => FirstIndex(raw, out[a]) < FirstIndex(raw, out[b])
    /\ \A x \in Range(raw) : \A b \in DOMAIN out :
          FirstIndex(raw, x) < FirstIndex(raw, out[b]) => x \in Range(out)

\* C11: whatever identifiers the search returned, repeated ones included,
\* the identifiers process_one_message goes on with after line 174 contain
\* no duplicate, are the first occurrences in the order of the response, and
\* are at most NUM_RESULTS (so no more than the NUM_RESULTS * 2 requested);
\* without any identifier the message ends there.
C11_SampleDeduplicated ==
    [][\A i \in Invs :
          inv[i].pc = "dedup" =>
              /\ inv'[i].pc = "fetch" =>
                    /\ FirstOccurrences(inv[i].cur.ids, inv'[i].cur.ids, NUM_RESULTS)
                    /\ Len(inv'[i].cur.ids) <= NUM_RESULTS * 2
              /\ inv'[i].pc = "ack" => inv[i].cur.ids = <<>>]_vars

\* the search returned a repeated identifier and more than NUM_RESULTS
\* distinct ones, the repetition among the first NUM_RESULTS hits
C11_Witness ==
    \E i \in Invs :
        /\ inv[i].pc = "dedup"
        /\ Cardinality(Range(inv[i].cur.ids)) > NUM_RESULTS
        /\ ~NoDuplicates(SubSeq(inv[i].cur.ids, 1, NUM_RESULTS))

---------------------------------------------------------------------------
(* C12 *)

\* the listing lines of a composed body: those between the intro and the
\* closing
Listing(text) == SubSeq(text, 2, Len(text) - 2)

\* the name of the record of r as a listing line shows it
ShownName(r) == Format(StoreItem(r).Name)

\* the listing line is the line of the record of r
LineOf(line, r) ==
    /\ Len(line) >= 2 + Len(ShownName(r))
    /\ SubSeq(line, 3, 2 + Len(ShownName(r))) = ShownName(r)

\* the sampled identifiers the table resolved, in the order of the sample
Resolved(c) == SelectSeq(c.ids, LAMBDA r : r \in DOMAIN c.details)

\* C12: the body handed to send_email lists exactly the sampled identifiers
\* that DynamoDB resolved, in the order of the sample; identifiers the table
\* does not hold are left out without an error, and as long as one resolves
\* the message goes on to format_email and send_email, its outcome being
\* that of the send.
C12_ListsResolvedInOrder ==
    \A i \in Invs :
        LET c == inv[i].cur IN
        /\ inv[i].pc = "deliver" =>
              /\ Len(Listing(c.text)) = Len(Resolved(c))
              /\ \A k \in DOMAIN Resolved(c) : LineOf(Listing(c.text)[k], Resolved(c)[k])
        /\ (Handled(i) /\ Did(c, "dynamodb", "some")) =>
              /\ Did(c, "format_email", "ok")
              /\ c.exit \in {"sent", "send_false", "send_raised"}
              /\ c.ok <=> Delivered(c)

\* three identifiers sampled, the second of them missing from the table:
\* the body lists the first and the third
C12_Witness ==
    \E i \in Invs :
        LET c == inv[i].cur IN
        /\ inv[i].pc = "deliver"
        /\ c.ids = <<"r4", "r2", "r1">>
        /\ DOMAIN c.details = {"r1", "r4"}
        /\ Len(Listing(c.text)) = 2

---------------------------------------------------------------------------
(* C13 *)

\* a line of a body that starts as a listing line does: a number and ". "
Numbered(line) == Len(line) >= 2 /\ IsDigit(line[1]) /\ line[2] = ". "

\* C13: for every request and every non-empty sequence of records handed
\* to format_email, the body it returns has, between the intro and the
\* closing, exactly one line for each record, in the order of the records,
\* the k-th of them numbered k and showing the name of the k-th record.
C13_OneLinePerEntity ==
    \A i \in Invs :
        LET c == inv[i].cur IN
        inv[i].pc = "deliver" =>
            /\ c.results # <<>>
            /\ Len(c.text) = Len(c.results) + 3
            /\ Cardinality({ k \in DOMAIN c.text : Numbered(c.text[k]) }) = Len(c.results)
            /\ \A k \in DOMAIN c.results :
                  LET line == c.text[k + 1]
                      name == Format(c.results[k].Name)
                  IN /\ Numbered(line)
                     /\ line[1] = <<"1", "2", "3", "4", "5", "6", "7", "8", "9">>[k]
                     /\ SubSeq(line, 3, 2 + Len(name)) = name

\* a body composed for NUM_RESULTS records and a request with a party size
C13_Witness ==
    \E i \in Invs :
        /\ inv[i].pc = "deliver"
        /\ Len(inv[i].cur.results) = NUM_RESULTS
        /\ Truthy(Get(inv[i].cur.payload.num_people))
        /\ Len(Listing(inv[i].cur.text)) = NUM_RESULTS

---------------------------------------------------------------------------
(* C14 *)

\* part occurs in line as it is
Verbatim(part, line) ==
    \E k \in 0..(Len(line) - Len(part)) : SubSeq(line, k + 1, k + Len(part)) = part

\* a string that strptime rejects
Malformed(v, ok) == v.t = "str" /\ v.s # <<>> /\ ~ok

\* C14: whatever the optional num_people, dining_date and dining_time of a
\* payload are (valid, a malformed string, no string, null), format_email
\* does not raise; a malformed date or time stands verbatim in the intro of
\* the body; and the message is delivered when SES accepts the email.
C14_ComposeTotal ==
    \A i \in Invs :
        LET c == inv[i].cur IN
        /\ ~Did(c, "format_email", "raised")
        /\ inv[i].pc = "deliver" =>
              LET date == c.payload.dining_date
                  time == c.payload.dining_time
              IN /\ Malformed(date, strptime_date(date.s).ok) => Verbatim(date.s, c.text[1])
                 /\ Malformed(time, strptime_time(time.s).ok) => Verbatim(time.s, c.text[1])
        /\ (Handled(i) /\ Called(c, "send_email")) =>
              (Did(c, "send_email", "accepted") => c.ok)

---------------------------------------------------------------------------
(* C15 *)

\* invocations i and j have both composed the email of the same message,
\* j on a later receipt of it
Recomposed(i, j) ==
    /\ inv[i].pc = "deliver" /\ inv[j].pc = "deliver"
    /\ inv[i].cur.m = inv[j].cur.m
    /\ inv[i].cur.rh < inv[j].cur.rh

\* C15 as stated: the email composed for a redelivered payload is the one
\* composed on the first attempt.
C15_SameMessageAsStated ==
    \A i, j \in Invs :
        Recomposed(i, j) =>
            /\ inv[i].cur.subject = inv[j].cur.subject
            /\ inv[i].cur.text = inv[j].cur.text

\* C15, amended: the email composed for a redelivered payload has the
\* subject, the intro line and the closing of the one composed on the first
\* attempt; its listing is that of the records sampled and resolved on the
\* second attempt, which may be other records, and the bodies are the same
\* when both attempts resolved the same records in the same order.
C15_SameFrame ==
    \A i, j \in Invs :
        Recomposed(i, j) =>
            LET a == inv[i].cur.text
                b == inv[j].cur.text
            IN /\ inv[i].cur.subject = inv[j].cur.subject
               /\ a[1] = b[1]
               /\ SubSeq(a, Len(a) - 1, Len(a)) = SubSeq(b, Len(b) - 1, Len(b))
               /\ Len(Listing(b)) = Len(inv[j].cur.results)
               /\ inv[i].cur.results = inv[j].cur.results => a = b

\* the second attempt composed an email that lists other records than the
\* first
C15_Witness ==
    \E i, j \in Invs :
        /\ Recomposed(i, j)
        /\ Len(inv[i].cur.results) # Len(inv[j].cur.results)
        /\ inv[i].cur.text # inv[j].cur.text

---------------------------------------------------------------------------
(* C17 *)

\* the places in the batch of i of the messages whose loop iteration is
\* over
Done(i) == 1..(inv[i].idx - 1)

\* C17: when an invocation is terminated, every message of its batch that
\* it had not taken yet is still in the queue, and so is the message in
\* progress unless its delete_message call had reached the queue; the
\* messages that are gone are those whose delete had been carried out,
\* processed counting the deletes that returned; what is left is in flight
\* or visible again, to be received anew.
C17_TerminationKeepsMessages ==
    \A i \in Invs :
        inv[i].pc = "killed" =>
            /\ \A k \in (inv[i].idx + 1)..Len(inv[i].msgs) : ~Removed(inv[i].msgs[k].id)
            /\ \A k \in {inv[i].idx} \cap DOMAIN inv[i].msgs :
                  Removed(inv[i].msgs[k].id) =>
                      /\ inv[i].cur.m = inv[i].msgs[k].id
                      /\ ~inv[i].cur.handled
                      /\ Did(inv[i].cur, "delete_message", "unanswered")
            /\ RemovedOf(i) \subseteq Done(i) \cup {inv[i].idx}
            /\ Cardinality(RemovedOf(i) \cap Done(i)) = inv[i].processed
            /\ \A k \in DOMAIN inv[i].msgs :
                  ~Removed(inv[i].msgs[k].id) =>
                      queue[inv[i].msgs[k].id].status \in {"inflight", "visible"}

\* an invocation terminated while it waited for DynamoDB on the second
\* message of its batch: the first message is deleted, the second one is
\* visible again
C17_Witness ==
    \E i \in Invs :
        /\ inv[i].pc = "killed"
        /\ inv[i].idx = 2
        /\ inv[i].cur.ids # <<>>
        /\ Removed(inv[i].msgs[1].id)
        /\ Visible(inv[i].msgs[2].id)

---------------------------------------------------------------------------
(* C18 *)

\* C18: no downstream call that stalls keeps the invocation waiting
\* without end: a stalled call ends by raising, the attempt of the message
\* is a transient failure, and the loop goes on with the next message.
C18_StalledCallFails ==
    \A i \in Invs :
        /\ inv[i].pc # "hung"
        /\ Did(inv[i].cur, "opensearch", "stalled") =>
              (inv[i].pc \in {"ack", "process", "done"} /\ ~inv[i].cur.ok)

---------------------------------------------------------------------------
(* C19 *)

\* the identifiers the index returned for the message
Returned(c) ==
    UNION { Range(c.calls[k].res) : k \in { j \in DOMAIN c.calls : c.calls[j].fn = "returned" } }

\* C19: whenever at least NUM_RESULTS of the distinct identifiers the index
\* returned are in the table, the body handed to send_email lists
\* NUM_RESULTS restaurants; it never lists more than NUM_RESULTS.
C19_OverRequestCompensates ==
    \A i \in Invs :
        LET c == inv[i].cur IN
        inv[i].pc = "deliver" =>
            /\ Len(Listing(c.text)) <= NUM_RESULTS
            /\ Cardinality(Returned(c) \cap Table) >= NUM_RESULTS =>
                  Len(Listing(c.text)) = NUM_RESULTS

---------------------------------------------------------------------------
(* C20 *)

\* C20: what a record or a request lacks is left out of the body and never
\* shown as a placeholder: the line of a record without an address has no
\* "located at" clause, the intro of a request without a party size has no
\* "people" clause and that of a request with neither date nor time no
\* "for ..." clause, a request without a time no "at ..." part, and no line
\* of the body, that of a record without a name included, contains "None".
C20_MissingRenderedAbsent ==
    \A i \in Invs :
        LET c == inv[i].cur IN
        inv[i].pc = "deliver" =>
            /\ \A k \in DOMAIN c.results :
                  ~Truthy(Get(c.results[k].Address)) =>
                      ~Verbatim(<<", located at ">>, Listing(c.text)[k])
            /\ ~Truthy(Get(c.payload.num_people)) => ~Verbatim(<<" people">>, c.text[1])
            /\ (~Truthy(Get(c.payload.dining_date)) /\ ~Truthy(Get(c.payload.dining_time))) =>
                  ~Verbatim(<<", for ">>, c.text[1])
            /\ ~Truthy(Get(c.payload.dining_time)) => ~Verbatim(<<"at ">>, c.text[1])
            /\ \A k \in DOMAIN c.text : ~Verbatim(<<"None">>, c.text[k])

---------------------------------------------------------------------------
(* The dialog collector (LF1) *)

\* the requests the collector may leave in the queue in one behaviour
MaxQueued == 1

ALLOWED_CUISINES ==
    { <<"I", "t", "a", "l", "i", "a", "n">>, <<"C", "h", "i", "n", "e", "s", "e">>,
      <<"M", "e", "x", "i", "c", "a", "n">>, <<"I", "n", "d", "i", "a", "n">>,
      <<"J", "a", "p", "a", "n", "e", "s", "e">> }

\* the interpreted value of a slot, None for a slot that is not filled
get_slot_value(slots, slot_name) ==
    IF slots[slot_name].t = "str" THEN slots[slot_name] ELSE PyNone

\* email and "@" in email
is_valid_email(email) == Truthy(email) /\ \E k \in DOMAIN email.s : email.s[k] = "@"

\* int(num) > 0: int() takes digits between blanks, after an optional sign,
\* and raises ValueError for any other text
is_valid_number(num) ==
    LET t == strip(num.s)
        signed == t # <<>> /\ Head(t) \in {"+", "-"}
        digits == IF signed THEN Tail(t) ELSE t
    IN /\ num.t = "str"
       /\ digits # <<>>
       /\ \A k \in DOMAIN digits : IsDigit(digits[k])
       /\ ~(signed /\ Head(t) = "-")
       /\ ToInt(digits) > 0

\* str.capitalize(): the first character in upper case, the rest in lower
capitalize(s) ==
    [k \in DOMAIN s |-> IF k = 1 THEN UpperChar(s[k]) ELSE LowerChar(s[k])]

is_valid_cuisine(cuisine) ==
    cuisine.t = "str" /\ capitalize(strip(cuisine.s)) \in ALLOWED_CUISINES

\* the days the collector may run on (datetime.today().date())
Todays == { [y |-> 2025, m |-> 10, d |-> 1], [y |-> 2025, m |-> 10, d |-> 20] }

\* date >= today
NotBefore(date, today) ==
    \/ date.y > today.y
    \/ date.y = today.y /\ date.m > today.m
    \/ date.y = today.y /\ date.m = today.m /\ date.d >= today.d

is_valid_date(date_str, today) ==
    /\ date_str.t = "str"
    /\ strptime_date(date_str.s).ok
    /\ NotBefore(strptime_date(date_str.s), today)

is_valid_time(time_str) == time_str.t = "str" /\ strptime_time(time_str.s).ok

\* what lambda_handler returns to Lex, and the data it handed to push_to_sqs
Response(type, slot, pushed, data) ==
    [type |-> type, slot |-> slot, pushed |-> pushed, data |-> data]

elicit_slot(slot_to_elicit) == Response("ElicitSlot", slot_to_elicit, FALSE, Absent)

\* json.dumps(data): the Body of the message send_message leaves in the queue
push_to_sqs(data) ==
    [ kind |-> "object", cuisine |-> data.cuisine, email |-> data.email,
      num_people |-> data.num_people, dining_date |-> data.dining_date,
      dining_time |-> data.dining_time, location |-> data.location ]

\* lambda_handler of LF1 for one event of Lex
LF1_lambda_handler(event) ==
    LET location == get_slot_value(event.slots, "Location")
        cuisine == get_slot_value(event.slots, "Cuisine")
        dining_date == get_slot_value(event.slots, "DiningDate")
        dining_time == get_slot_value(event.slots, "DiningTime")
        num_people == get_slot_value(event.slots, "NumberOfPeople")
        email == get_slot_value(event.slots, "Email")
    IN IF event.intent_name # "DiningSuggestionsIntent"
       THEN Response("None", "", FALSE, Absent)
       ELSE IF event.invocation_source = "DialogCodeHook"
       THEN IF Truthy(cuisine) /\ ~is_valid_cuisine(cuisine) THEN elicit_slot("Cuisine")
            ELSE IF Truthy(email) /\ ~is_valid_email(email) THEN elicit_slot("Email")
            ELSE IF Truthy(dining_date) /\ ~is_valid_date(dining_date, event.today)
            THEN elicit_slot("DiningDate")
            ELSE IF Truthy(dining_time) /\ ~is_valid_time(dining_time)
            THEN elicit_slot("DiningTime")
            ELSE IF Truthy(num_people) /\ ~is_valid_number(num_people)
            THEN elicit_slot("NumberOfPeople")
            ELSE Response("Delegate", "", FALSE, Absent)
       ELSE IF event.invocation_source = "FulfillmentCodeHook"
       THEN Response("Close", "", TRUE,
                [ location |-> location,
                  cuisine |-> IF Truthy(cuisine) THEN Str(lower(strip(cuisine.s))) ELSE cuisine,
                  dining_time |-> dining_time, dining_date |-> dining_date,
                  num_people |-> num_people, email |-> email ])
       ELSE Response("None", "", FALSE, Absent)

\* the slot values of an event: not filled, a valid text, an invalid text
CuisineSlots ==
    { PyNone, Str(<<"I", "t", "a", "l", "i", "a", "n">>),
      Str(<<" ", "i", "T", "A", "L", "I", "A", "N", " ">>), Str(<<"T", "h", "a", "i">>) }

EmailSlots == { PyNone, Str(<<"a", "@", "b">>), Str(<<"a", "b">>) }

DateSlots ==
    { PyNone, Str(<<"2", "0", "2", "5", "-", "1", "0", "-", "0", "9">>),
      Str(<<"2", "0", "2", "5", "-", "1", "3", "-", "4", "0">>) }

TimeSlots == { PyNone, Str(<<"1", "9", ":", "0", "0">>), Str(<<"7", "p", "m">>) }

PeopleSlots == { PyNone, Str(<<"2">>), Str(<<"0">>), Str(<<"t", "w", "o">>) }

LocationSlots == { Str(<<"Manhattan">>) }

Slots ==
    [ Location : LocationSlots, Cuisine : CuisineSlots, DiningDate : DateSlots,
      DiningTime : TimeSlots, NumberOfPeople : PeopleSlots, Email : EmailSlots ]

Events ==
    [ intent_name : {"DiningSuggestionsIntent", "GreetingIntent"},
      invocation_source : {"DialogCodeHook", "FulfillmentCodeHook", "Other"},
      slots : Slots, today : Todays ]

\* one invocation of LF1: the request it pushes, if any, joins the queue
Collect ==
    /\ Len(queue) < MaxQueued
    /\ \E event \in Events :
          LET r == LF1_lambda_handler(event) IN
          IF r.pushed
          THEN /\ queue' = Append(queue, Queued(push_to_sqs(r.data)))
               /\ outbox' = Append(outbox, 0)
          ELSE UNCHANGED <<queue, outbox>>
    /\ UNCHANGED <<inv, runs>>

\* an empty queue and the collector alone
InitDialog == Start(<<>>, 1, 0)

NextDialog == Collect

SpecDialog == InitDialog /\ [][NextDialog]_vars

---------------------------------------------------------------------------
(* C21 *)

\* a request as validation would have passed it: an allowed cuisine, an
\* email with "@", and a well-formed date and time and a positive party
\* size where it has them
Validated(b) ==
    /\ is_valid_cuisine(Get(b.cuisine))
    /\ is_valid_email(Get(b.email))
    /\ Truthy(Get(b.dining_date)) => (\E today \in Todays : is_valid_date(Get(b.dining_date), today))
    /\ Truthy(Get(b.dining_time)) => is_valid_time(Get(b.dining_time))
    /\ Truthy(Get(b.num_people)) => is_valid_number(Get(b.num_people))

\* C21: every request the dialog collector left in the queue passes the
\* validation of each of its fields: its cuisine is an allowed one, its
\* email contains "@", and its date, time and party size, when present,
\* are valid; an invocation with an invalid slot value enqueues nothing.
C21_EnqueuedRequestsValidated == \A m \in Msgs : Validated(queue[m].body)

---------------------------------------------------------------------------
(* C22 *)

\* the calls of fn made for the message so far
Count(c, fn) == Cardinality({ k \in DOMAIN c.calls : c.calls[k].fn = fn })

\* a call of fn with result res was made before the k-th call
Before(c, k, fn, res) == \E j \in 1..(k - 1) : c.calls[j] = [fn |-> fn, res |-> res]

\* the stages of one processing attempt: send_email is called at most once,
\* after an index query with hits and, after that, a store fetch with
\* items, and with a sample and a list of records that are not empty; a
\* delete_message that follows a send_email follows an accepted one
StagesInOrder ==
    \A i \in Invs :
        LET c == inv[i].cur IN
        /\ Count(c, "send_email") <= 1
        /\ Count(c, "delete_message") <= 1
        /\ \A k \in DOMAIN c.calls :
              /\ c.calls[k].fn = "send_email" =>
                    \E j \in 1..(k - 1) :
                        /\ c.calls[j] = [fn |-> "dynamodb", res |-> "some"]
                        /\ Before(c, j, "opensearch", "hits")
              /\ (c.calls[k].fn = "delete_message" /\ Called(c, "send_email")) =>
                    Before(c, k, "send_email", "accepted")
        /\ inv[i].pc \in {"send", "deliver"} =>
              c.ids # <<>> /\ c.results # <<>> /\ ~Called(c, "send_email")
        /\ \A j, k \in DOMAIN inv[i].msgs :
              j # k => inv[i].msgs[j].id # inv[i].msgs[k].id

\* a step that issues a delete for a message leaves that message behind: the
\* loop goes on to the next message of the batch, or the invocation ends
DeletesOnce ==
    \A i \in Invs :
        Count(inv'[i].cur, "delete_message") > Count(inv[i].cur, "delete_message") =>
            \/ inv'[i].pc = "raised"
            \/ inv'[i].idx = inv[i].idx + 1

\* C22: within one processing attempt the email service is called at most
\* once, and only after the index query and then the store fetch of that
\* attempt returned a non-empty result; the delete of a delivered message
\* comes after its send was accepted, and a message of a batch gets at most
\* one delete in an invocation.
C22_StageOrder == []StagesInOrder /\ [][DeletesOnce]_vars

\* a delivered request and another message of its batch were deleted, the
\* request after its query, fetch and send
C22_Witness ==
    \E i \in Invs :
        /\ inv[i].cur.calls =
              << [fn |-> "opensearch", res |-> "hits"], [fn |-> "dynamodb", res |-> "some"],
                 [fn |-> "format_email", res |-> "ok"], [fn |-> "send_email", res |-> "accepted"],
                 [fn |-> "delete_message", res |-> "ok"] >>
        /\ Removed(inv[i].cur.m)
        /\ inv[i].processed >= 2

====
